---- MODULE Spec2Model ----
(***************************************************************************)
(* A model of the autolens_workspace scripts:                              *)
(*   - the weighted mean / standard deviation helper and the loop over fit *)
(*     outputs of aggregator/scripts/tutorial_2_lens_models.py;            *)
(*   - the phase lists that the make_pipeline functions under pipelines/   *)
(*     build, the priors each phase is configured with, and the sequential *)
(*     run of a (composed) pipeline.                                       *)
(***************************************************************************)
EXTENDS Integers, Sequences, FiniteSets, TLC

VARIABLES
    values, weights, returned,
    total_outputs, output_index, einstein_masses, einstein_mass_errors,
    value, error, agg_status,
    script, args, pipeline, status, running, started, results, failed

stats_vars == <<values, weights, returned>>
agg_vars == <<total_outputs, output_index, einstein_masses, einstein_mass_errors,
              value, error, agg_status>>
run_vars == <<script, args, pipeline, status, running, started, results, failed>>
vars == <<stats_vars, agg_vars, run_vars>>

(***************************************************************************)
(* Bounds of the model.                                                    *)
(***************************************************************************)
MaxSamples == 2
MaxValue == 1
MaxWeight == 2
MaxOutputs == 2

(***************************************************************************)
(* Exact rational arithmetic.  The arrays of the model hold small          *)
(* integers, for which the float64 products and sums of np.average are     *)
(* exact; the one rounding left, that of the final division, is monotone,  *)
(* so the comparisons below are those of the computed numbers.  A rational *)
(* is a record [num, den] with den > 0, in lowest terms.                   *)
(***************************************************************************)
Abs(x) == IF x < 0 THEN 0 - x ELSE x

RECURSIVE GCD(_, _)
GCD(a, b) == IF b = 0 THEN a ELSE GCD(b, a % b)

Rat(n, d) ==
    LET s == IF d < 0 THEN 0 - 1 ELSE 1
        g == GCD(Abs(n), Abs(d))
    IN  [num |-> (s * n) \div g, den |-> (s * d) \div g]

RatLeq(a, b) == a.num * b.den <= b.num * a.den

RECURSIVE SumSeq(_)
SumSeq(s) == IF s = <<>> THEN 0 ELSE Head(s) + SumSeq(Tail(s))

MinOf(s) == CHOOSE x \in {s[i] : i \in DOMAIN s} : \A i \in DOMAIN s : x <= s[i]
MaxOf(s) == CHOOSE x \in {s[i] : i \in DOMAIN s} : \A i \in DOMAIN s : x >= s[i]

NaN == [nan |-> TRUE]
NoValue == [none |-> TRUE]
Raised == [raised |-> TRUE]

(***************************************************************************)
(* np.average(a, weights=w): the arrays must have the same shape, the sum  *)
(* of the weights must not be zero (ZeroDivisionError), and the result is  *)
(* sum(a * w) / sum(w).  Here a is an array of rationals sharing the       *)
(* denominator den: a[i] = nums[i] / den.                                  *)
(***************************************************************************)
Average_Unnormalised(nums, den, w) ==
    IF Len(nums) # Len(w) \/ SumSeq(w) = 0 THEN Raised
    ELSE Rat(SumSeq([i \in DOMAIN nums |-> nums[i] * w[i]]), den * Len(w))

Average(nums, den, w) ==
    IF Len(nums) # Len(w) \/ SumSeq(w) = 0 THEN Raised
    ELSE Rat(SumSeq([i \in DOMAIN nums |-> nums[i] * w[i]]), den * SumSeq(w))

(***************************************************************************)
(* (values - average) ** 2, as numerators over the denominator             *)
(* average.den ^ 2.                                                        *)
(***************************************************************************)
SquaredDifferences_NoParens(vals, average) ==
    [i \in DOMAIN vals |->
        vals[i] * average.den * average.den - average.num * average.num]

SquaredDifferences(vals, average) ==
    [i \in DOMAIN vals |->
        (vals[i] * average.den - average.num) * (vals[i] * average.den - average.num)]

(***************************************************************************)
(* np.sqrt: nan for a negative number, otherwise the non-negative root,    *)
(* kept as its radicand.                                                   *)
(***************************************************************************)
Sqrt(x) == IF x.num < 0 THEN NaN ELSE [radicand |-> x]

weighted_mean_and_standard_deviation(vals, w) ==
    LET average == Average(vals, 1, w)
    IN  IF average = Raised THEN Raised
        ELSE LET variance ==
                     Average(SquaredDifferences(vals, average),
                             average.den * average.den, w)
             IN  [average |-> average, deviation |-> Sqrt(variance)]

(***************************************************************************)
(* The helper on its own: any two arrays, then one call.                   *)
(***************************************************************************)
Values == (0 - MaxValue)..MaxValue
Weights == (0 - 1)..MaxWeight

ArraysOf(S) == UNION {[1..n -> S] : n \in 0..MaxSamples}

NoFailure == [phase |-> 0, cause |-> "-"]

RunIdle ==
    /\ script = "-"
    /\ args = <<>>
    /\ pipeline = <<>>
    /\ status = "idle"
    /\ running = {}
    /\ started = <<>>
    /\ results = <<>>
    /\ failed = NoFailure

AggIdle ==
    /\ total_outputs = 0
    /\ output_index = 0
    /\ einstein_masses = <<>>
    /\ einstein_mass_errors = <<>>
    /\ value = NoValue
    /\ error = NoValue
    /\ agg_status = "idle"

StatsInit ==
    /\ values \in ArraysOf(Values)
    /\ weights \in ArraysOf(Weights)
    /\ returned = NoValue
    /\ AggIdle
    /\ RunIdle

Call ==
    /\ returned = NoValue
    /\ returned' = weighted_mean_and_standard_deviation(values, weights)
    /\ UNCHANGED <<values, weights, agg_vars, run_vars>>

StatsNext == Call

SpecStats == StatsInit /\ [][StatsNext]_vars

(***************************************************************************)
(* The loop over the fit outputs (tutorial_2_lens_models.py, 129-155).     *)
(* Each output's samples are read when its iteration runs: the masses are  *)
(* positive, the weights are MultiNest sampling probabilities (relative    *)
(* weights, none negative).  The arguments and the locals of the call of   *)
(* weighted_mean_and_standard_deviation are gone when it returns: the loop *)
(* keeps value and error.                                                  *)
(***************************************************************************)
Masses == {1, 2, 3}
SampleWeights == {0, 1, 2}

AggInit ==
    /\ total_outputs \in 0..MaxOutputs
    /\ output_index = 0
    /\ einstein_masses = <<>>
    /\ einstein_mass_errors = <<>>
    /\ value = NoValue
    /\ error = NoValue
    /\ agg_status = "loop"
    /\ values = <<>>
    /\ weights = <<>>
    /\ returned = NoValue
    /\ RunIdle

StoredError_Deviation(val, err) == err

StoredError(val, err) == val

LoopBody ==
    /\ agg_status = "loop"
    /\ output_index < total_outputs
    /\ \E n \in 1..MaxSamples :
         \E sample_masses \in [1..n -> Masses], sample_weights \in [1..n -> SampleWeights] :
            LET r == weighted_mean_and_standard_deviation(sample_masses, sample_weights)
            IN  /\ IF r = Raised
                   THEN /\ agg_status' = "raised"
                        /\ UNCHANGED <<output_index, einstein_masses,
                                       einstein_mass_errors, value, error>>
                   ELSE /\ value' = r.average
                        /\ error' = r.deviation
                        /\ einstein_masses' = Append(einstein_masses, r.average)
                        /\ einstein_mass_errors' =
                               Append(einstein_mass_errors, StoredError(r.average, r.deviation))
                        /\ output_index' = output_index + 1
                        /\ agg_status' = "loop"
    /\ UNCHANGED <<stats_vars, total_outputs, run_vars>>

PrintResults ==
    /\ agg_status = "loop"
    /\ output_index = total_outputs
    /\ agg_status' = "printed"
    /\ UNCHANGED <<stats_vars, total_outputs, output_index, einstein_masses,
                   einstein_mass_errors, value, error, run_vars>>

AggNext == LoopBody \/ PrintResults

SpecAgg == AggInit /\ [][AggNext]_vars

(***************************************************************************)
(* PIPELINES.                                                              *)
(*                                                                         *)
(* A phase is a record: its name, the folder list it was given, the class  *)
(* of every component of its galaxies, the prior of every parameter, the   *)
(* image it fits and its optimizer settings.  A parameter is addressed by  *)
(* <<galaxy, component, parameter>>.  The prior of a parameter says how it *)
(* was configured:                                                         *)
(*   default   the prior of the configuration files;                       *)
(*   gaussian  a prior written in the pipeline (GaussianPrior);            *)
(*   value     fixed to a value the caller's setup supplies;               *)
(*   shared    the prior object of another parameter of the same phase;    *)
(*   instance  fixed to the best fit of the named phase (old name:         *)
(*             constant);                                                  *)
(*   model     a distribution re-centred on the estimate of the named      *)
(*             phase, with a width added (old name: variable).             *)
(* instance and model priors are resolved when the phase runs, by looking  *)
(* the named phase up in the results collected so far.                     *)
(***************************************************************************)
Last == "af.last"

Default == [kind |-> "default", phase |-> "-", path |-> <<>>, arg |-> <<>>]
GaussianPrior(mean, sigma) ==
    [kind |-> "gaussian", phase |-> "-", path |-> <<>>, arg |-> <<mean, sigma>>]
SetupValue(attribute) ==
    [kind |-> "value", phase |-> "-", path |-> <<>>, arg |-> <<attribute>>]
Shared(path) == [kind |-> "shared", phase |-> "-", path |-> path, arg |-> <<>>]
Instance(phase, path) == [kind |-> "instance", phase |-> phase, path |-> path, arg |-> <<>>]
Model(phase, path) == [kind |-> "model", phase |-> phase, path |-> path, arg |-> <<>>]
ModelAbsolute(phase, path, a) ==
    [kind |-> "model", phase |-> phase, path |-> path, arg |-> <<"absolute", a>>]
OptionalHyperInstance(phase, path) ==
    [kind |-> "instance", phase |-> phase, path |-> path, arg |-> <<"hyper_combined", "optional">>]

ProfileParams == {"centre_0", "centre_1", "axis_ratio", "phi", "rest"}
ShearParams == {"magnitude", "phi"}
PixelizationParams == {"shape"}
RegularizationParams == {"coefficient"}
HyperGalaxyParams == {"noise_factor", "rest"}

Empty == [p \in {} |-> Default]

\* The parameters params of component c of galaxy g, each with prior F(parameter).
Comp(g, c, params, F(_)) == [p \in {<<g, c, x>> : x \in params} |-> F(p[3])]

DefaultComp(g, c, params) == Comp(g, c, params, LAMBDA x : Default)
InstanceComp(g, c, params, phase, sc) ==
    Comp(g, c, params, LAMBDA x : Instance(phase, <<sc[1], sc[2], x>>))
ModelComp(g, c, params, phase, sc) ==
    Comp(g, c, params, LAMBDA x : Model(phase, <<sc[1], sc[2], x>>))

\* f with the priors of g replacing those f holds for the same parameters.
Override(f, g) == g @@ f

Optimizer(const_efficiency_mode, n_live_points, sampling_efficiency) ==
    [const_efficiency_mode |-> const_efficiency_mode,
     n_live_points |-> n_live_points,
     sampling_efficiency |-> sampling_efficiency]

Observed == [kind |-> "observed", phase |-> "-"]
Subtracted(phase) == [kind |-> "minus_unmasked_model_image", phase |-> phase]

Phase(phase_name, phase_folders, profiles, priors, image, optimizer, extended) ==
    [name |-> phase_name, folders |-> phase_folders, profiles |-> profiles,
     priors |-> priors, image |-> image, optimizer |-> optimizer,
     extended |-> extended]

Pipeline(pipeline_name, phases) == [ok |-> TRUE, name |-> pipeline_name, phases |-> phases]
NoPipeline == [ok |-> FALSE, name |-> "-", phases |-> <<>>]

\* A phase_folders argument: None, or a list.
None == [given |-> FALSE, list |-> <<>>]
List(l) == [given |-> TRUE, list |-> l]

(***************************************************************************)
(* pipelines/simple/lens_sie__source_inversion.py                          *)
(***************************************************************************)
SimpleInversionFolders_TagFirst(phase_folders) ==
    phase_folders \o <<"pipeline_tag", "pipeline__sie__source_inversion">>

SimpleInversionFolders(phase_folders) ==
    phase_folders \o <<"pipeline__sie__source_inversion", "pipeline_tag">>

SimpleInversionShear_Always(include_shear) ==
    <<"lens", "shear">> :> "ExternalShear"

SimpleInversionShear(include_shear) ==
    IF include_shear THEN <<"lens", "shear">> :> "ExternalShear" ELSE [c \in {} |-> "-"]

SimpleInversionPhase1(include_shear, folders) ==
    Phase("phase_1__source_sersic", folders,
          (<<"lens", "mass">> :> "EllipticalIsothermal")
              @@ SimpleInversionShear(include_shear)
              @@ (<<"source", "light">> :> "EllipticalSersic"),
          Override(DefaultComp("lens", "mass", ProfileParams),
                   (<<"lens", "mass", "centre_0">> :> GaussianPrior("0.0", "0.1"))
                       @@ (<<"lens", "mass", "centre_1">> :> GaussianPrior("0.0", "0.1")))
              @@ (IF include_shear THEN DefaultComp("lens", "shear", ShearParams) ELSE Empty)
              @@ DefaultComp("source", "light", ProfileParams),
          Observed, Optimizer(TRUE, 80, "0.2"), "-")

\* phaseN.result.instance/model.galaxies.lens.shear: the shear of the lens of
\* that phase, None when its lens was made with shear=None.
HasShear(phase) == <<"lens", "shear">> \in DOMAIN phase.profiles

ResultShear(phase) ==
    IF HasShear(phase) THEN <<"lens", "shear">> :> phase.profiles[<<"lens", "shear">>]
    ELSE [c \in {} |-> "-"]

SimpleInversionPhase2_OwnResult(include_shear, folders) ==
    Phase("phase_2__source_inversion_initialization", folders,
          (<<"lens", "mass">> :> "EllipticalIsothermal")
              @@ SimpleInversionShear(include_shear)
              @@ (<<"source", "pixelization">> :> "VoronoiMagnification")
              @@ (<<"source", "regularization">> :> "Constant"),
          InstanceComp("lens", "mass", ProfileParams,
                       "phase_2__source_inversion_initialization", <<"lens", "mass">>)
              @@ (IF include_shear
                  THEN InstanceComp("lens", "shear", ShearParams,
                                    "phase_2__source_inversion_initialization",
                                    <<"lens", "shear">>)
                  ELSE Empty)
              @@ DefaultComp("source", "pixelization", PixelizationParams)
              @@ DefaultComp("source", "regularization", RegularizationParams),
          Observed, Optimizer(TRUE, 20, "0.8"), "inversion")

SimpleInversionPhase2_Variable(include_shear, folders) ==
    Phase("phase_2__source_inversion_initialization", folders,
          (<<"lens", "mass">> :> "EllipticalIsothermal")
              @@ ResultShear(SimpleInversionPhase1(include_shear, folders))
              @@ (<<"source", "pixelization">> :> "VoronoiMagnification")
              @@ (<<"source", "regularization">> :> "Constant"),
          ModelComp("lens", "mass", ProfileParams,
                       "phase_1__source_sersic", <<"lens", "mass">>)
              @@ (IF HasShear(SimpleInversionPhase1(include_shear, folders))
                  THEN ModelComp("lens", "shear", ShearParams,
                                    "phase_1__source_sersic", <<"lens", "shear">>)
                  ELSE Empty)
              @@ DefaultComp("source", "pixelization", PixelizationParams)
              @@ DefaultComp("source", "regularization", RegularizationParams),
          Observed, Optimizer(TRUE, 20, "0.8"), "inversion")

SimpleInversionPhase2(include_shear, folders) ==
    Phase("phase_2__source_inversion_initialization", folders,
          (<<"lens", "mass">> :> "EllipticalIsothermal")
              @@ ResultShear(SimpleInversionPhase1(include_shear, folders))
              @@ (<<"source", "pixelization">> :> "VoronoiMagnification")
              @@ (<<"source", "regularization">> :> "Constant"),
          InstanceComp("lens", "mass", ProfileParams,
                       "phase_1__source_sersic", <<"lens", "mass">>)
              @@ (IF HasShear(SimpleInversionPhase1(include_shear, folders))
                  THEN InstanceComp("lens", "shear", ShearParams,
                                    "phase_1__source_sersic", <<"lens", "shear">>)
                  ELSE Empty)
              @@ DefaultComp("source", "pixelization", PixelizationParams)
              @@ DefaultComp("source", "regularization", RegularizationParams),
          Observed, Optimizer(TRUE, 20, "0.8"), "inversion")

SimpleInversionPhase3_SourceFromPhase1(include_shear, folders) ==
    Phase("phase_3__inversion", folders,
          (<<"lens", "mass">> :> "EllipticalIsothermal")
              @@ ResultShear(SimpleInversionPhase1(include_shear, folders))
              @@ (<<"source", "pixelization">> :> "VoronoiMagnification")
              @@ (<<"source", "regularization">> :> "Constant"),
          ModelComp("lens", "mass", ProfileParams,
                    "phase_1__source_sersic", <<"lens", "mass">>)
              @@ (IF HasShear(SimpleInversionPhase1(include_shear, folders))
                  THEN ModelComp("lens", "shear", ShearParams,
                                 "phase_1__source_sersic", <<"lens", "shear">>)
                  ELSE Empty)
              @@ ModelComp("source", "pixelization", PixelizationParams,
                           "phase_1__source_sersic",
                           <<"source", "pixelization">>)
              @@ ModelComp("source", "regularization", RegularizationParams,
                           "phase_1__source_sersic",
                           <<"source", "regularization">>),
          Observed, Optimizer(TRUE, 50, "0.5"), "-")

SimpleInversionPhase3(include_shear, folders) ==
    Phase("phase_3__inversion", folders,
          (<<"lens", "mass">> :> "EllipticalIsothermal")
              @@ ResultShear(SimpleInversionPhase1(include_shear, folders))
              @@ (<<"source", "pixelization">> :> "VoronoiMagnification")
              @@ (<<"source", "regularization">> :> "Constant"),
          ModelComp("lens", "mass", ProfileParams,
                    "phase_1__source_sersic", <<"lens", "mass">>)
              @@ (IF HasShear(SimpleInversionPhase1(include_shear, folders))
                  THEN ModelComp("lens", "shear", ShearParams,
                                 "phase_1__source_sersic", <<"lens", "shear">>)
                  ELSE Empty)
              @@ ModelComp("source", "pixelization", PixelizationParams,
                           "phase_2__source_inversion_initialization",
                           <<"source", "pixelization">>)
              @@ ModelComp("source", "regularization", RegularizationParams,
                           "phase_2__source_inversion_initialization",
                           <<"source", "regularization">>),
          Observed, Optimizer(TRUE, 50, "0.5"), "-")

\* make_pipeline: phase_folders.append raises when phase_folders is None.
SimpleInversion(include_shear, phase_folders) ==
    IF ~phase_folders.given THEN NoPipeline
    ELSE LET folders == SimpleInversionFolders(phase_folders.list)
         IN  Pipeline("pipeline__sie__source_inversion",
                      <<SimpleInversionPhase1(include_shear, folders),
                        SimpleInversionPhase2(include_shear, folders),
                        SimpleInversionPhase3(include_shear, folders)>>)

(***************************************************************************)
(* path_util.phase_folders_from_phase_folders_and_pipeline_name (autofit): *)
(* the pipeline name is appended to the list; None starts an empty list.   *)
(***************************************************************************)
phase_folders_from_phase_folders_and_pipeline_name(phase_folders, pipeline_name) ==
    phase_folders.list \o <<pipeline_name>>

(***************************************************************************)
(* pipelines/simple/lens_sersic_sie_shear_source_sersic.py                 *)
(* pass_priors runs when the phase runs; the priors below are those of the *)
(* constructor with the assignments of pass_priors applied.                *)
(***************************************************************************)
SersicPhase1 == "phase_1_lens_sersic"
SersicPhase2 == "phase_2_lens_sie_shear_source_sersic"
SersicPhase3_Renamed == "phase_3_lens_sersic_sie_shear_source_x1_sersic"
SersicPhase3 == "phase_3_lens_sersic_sie_shear_source_sersic"

LensPhase(folders) ==
    Phase(SersicPhase1, folders,
          <<"lens", "light">> :> "EllipticalSersic",
          Override(DefaultComp("lens", "light", ProfileParams),
                   (<<"lens", "light", "centre_0">> :> GaussianPrior("0.0", "0.1"))
                       @@ (<<"lens", "light", "centre_1">> :> GaussianPrior("0.0", "0.1"))),
          Observed, Optimizer(TRUE, 30, "0.3"), "-")

LensSubtractedPhase_SameCentre(folders) ==
    Phase(SersicPhase2, folders,
          (<<"lens", "mass">> :> "EllipticalIsothermal")
              @@ (<<"lens", "shear">> :> "ExternalShear")
              @@ (<<"source", "light">> :> "EllipticalSersic"),
          Override(DefaultComp("lens", "mass", ProfileParams),
                   (<<"lens", "mass", "centre_0">> :>
                        Model("phase_1_lens_sersic", <<"lens", "light", "centre_0">>))
                       @@ (<<"lens", "mass", "centre_1">> :>
                               Model("phase_1_lens_sersic", <<"lens", "light", "centre_0">>)))
              @@ DefaultComp("lens", "shear", ShearParams)
              @@ DefaultComp("source", "light", ProfileParams),
          Subtracted(Last), Optimizer(TRUE, 60, "0.2"), "-")

LensSubtractedPhase_Unmodified(folders) ==
    Phase(SersicPhase2, folders,
          (<<"lens", "mass">> :> "EllipticalIsothermal")
              @@ (<<"lens", "shear">> :> "ExternalShear")
              @@ (<<"source", "light">> :> "EllipticalSersic"),
          Override(DefaultComp("lens", "mass", ProfileParams),
                   (<<"lens", "mass", "centre_0">> :>
                        Model("phase_1_lens_sersic", <<"lens", "light", "centre_0">>))
                       @@ (<<"lens", "mass", "centre_1">> :>
                               Model("phase_1_lens_sersic", <<"lens", "light", "centre_1">>)))
              @@ DefaultComp("lens", "shear", ShearParams)
              @@ DefaultComp("source", "light", ProfileParams),
          Observed, Optimizer(TRUE, 60, "0.2"), "-")

LensSubtractedPhase(folders) ==
    Phase(SersicPhase2, folders,
          (<<"lens", "mass">> :> "EllipticalIsothermal")
              @@ (<<"lens", "shear">> :> "ExternalShear")
              @@ (<<"source", "light">> :> "EllipticalSersic"),
          Override(DefaultComp("lens", "mass", ProfileParams),
                   (<<"lens", "mass", "centre_0">> :>
                        Model("phase_1_lens_sersic", <<"lens", "light", "centre_0">>))
                       @@ (<<"lens", "mass", "centre_1">> :>
                               Model("phase_1_lens_sersic", <<"lens", "light", "centre_1">>)))
              @@ DefaultComp("lens", "shear", ShearParams)
              @@ DefaultComp("source", "light", ProfileParams),
          Subtracted(Last), Optimizer(TRUE, 60, "0.2"), "-")

LensSourcePhase_LightConstant(folders) ==
    Phase(SersicPhase3, folders,
          (<<"lens", "light">> :> "EllipticalSersic")
              @@ (<<"lens", "mass">> :> "EllipticalIsothermal")
              @@ (<<"lens", "shear">> :> "ExternalShear")
              @@ (<<"source", "light">> :> "EllipticalSersic"),
          InstanceComp("lens", "light", ProfileParams,
                       "phase_1_lens_sersic", <<"lens", "light">>)
              @@ ModelComp("lens", "mass", ProfileParams,
                           "phase_2_lens_sie_shear_source_sersic", <<"lens", "mass">>)
              @@ ModelComp("lens", "shear", ShearParams,
                           "phase_2_lens_sie_shear_source_sersic", <<"lens", "shear">>)
              @@ ModelComp("source", "light", ProfileParams,
                           "phase_2_lens_sie_shear_source_sersic", <<"source", "light">>),
          Observed, Optimizer(TRUE, 75, "0.3"), "-")

LensSourcePhase(folders) ==
    Phase(SersicPhase3, folders,
          (<<"lens", "light">> :> "EllipticalSersic")
              @@ (<<"lens", "mass">> :> "EllipticalIsothermal")
              @@ (<<"lens", "shear">> :> "ExternalShear")
              @@ (<<"source", "light">> :> "EllipticalSersic"),
          ModelComp("lens", "light", ProfileParams,
                       "phase_1_lens_sersic", <<"lens", "light">>)
              @@ ModelComp("lens", "mass", ProfileParams,
                           "phase_2_lens_sie_shear_source_sersic", <<"lens", "mass">>)
              @@ ModelComp("lens", "shear", ShearParams,
                           "phase_2_lens_sie_shear_source_sersic", <<"lens", "shear">>)
              @@ ModelComp("source", "light", ProfileParams,
                           "phase_2_lens_sie_shear_source_sersic", <<"source", "light">>),
          Observed, Optimizer(TRUE, 75, "0.3"), "-")

SimpleSersic(phase_folders) ==
    LET pipeline_name == "pl__lens_sersic_sie_shear_source_x1_sersic"
        folders == phase_folders_from_phase_folders_and_pipeline_name(
                       phase_folders, pipeline_name)
    IN  Pipeline(pipeline_name,
                 <<LensPhase(folders), LensSubtractedPhase(folders), LensSourcePhase(folders)>>)

(***************************************************************************)
(* pipelines/with_lens_light/inversion/from_initialize/                    *)
(*     lens_sersic_sie_shear_source_inversion.py                           *)
(***************************************************************************)
\* The phase of the previous pipeline that pass_priors looks up.
PreviousPipelinePhase == "phase_3_lens_sersic_sie_shear_source_sersic"

InversionPhase1Name == "phase_1_initialize_inversion"
InversionPhase2Name == "phase_2_lens_sersic_sie_shear_source_inversion"
InversionPhase3Name == "phase_3_lens_sersic_sie_shear_refine_source_inversion"

InversionProfiles(pixelization, regularization) ==
    (<<"lens", "light">> :> "EllipticalSersic")
        @@ (<<"lens", "mass">> :> "EllipticalIsothermal")
        @@ (<<"lens", "shear">> :> "ExternalShear")
        @@ (<<"source", "pixelization">> :> pixelization)
        @@ (<<"source", "regularization">> :> regularization)

\* self.lens_galaxies.lens = results.from_phase(phase).constant.lens_galaxies.lens
LensConstant(phase) ==
    InstanceComp("lens", "light", ProfileParams, phase, <<"lens", "light">>)
        @@ InstanceComp("lens", "mass", ProfileParams, phase, <<"lens", "mass">>)
        @@ InstanceComp("lens", "shear", ShearParams, phase, <<"lens", "shear">>)

\* self.lens_galaxies.lens = results.from_phase(phase).variable.lens_galaxies.lens
LensVariable(phase) ==
    ModelComp("lens", "light", ProfileParams, phase, <<"lens", "light">>)
        @@ ModelComp("lens", "mass", ProfileParams, phase, <<"lens", "mass">>)
        @@ ModelComp("lens", "shear", ShearParams, phase, <<"lens", "shear">>)

InversionPhase1_NoLookup(folders) ==
    Phase(InversionPhase1Name, folders,
          InversionProfiles("AdaptiveMagnification", "Constant"),
          DefaultComp("lens", "light", ProfileParams)
              @@ DefaultComp("lens", "mass", ProfileParams)
              @@ DefaultComp("lens", "shear", ShearParams)
              @@ DefaultComp("source", "pixelization", PixelizationParams)
              @@ DefaultComp("source", "regularization", RegularizationParams),
          Observed, Optimizer(TRUE, 20, "0.8"), "-")

InversionPhase1(folders) ==
    Phase(InversionPhase1Name, folders,
          InversionProfiles("AdaptiveMagnification", "Constant"),
          LensConstant(PreviousPipelinePhase)
              @@ DefaultComp("source", "pixelization", PixelizationParams)
              @@ DefaultComp("source", "regularization", RegularizationParams),
          Observed, Optimizer(TRUE, 20, "0.8"), "-")

InversionPhase2(pl_fix_lens_light, folders) ==
    Phase(InversionPhase2Name, folders,
          InversionProfiles("AdaptiveMagnification", "Constant"),
          Override(LensVariable(PreviousPipelinePhase),
                   IF pl_fix_lens_light
                   THEN InstanceComp("lens", "light", ProfileParams,
                                     PreviousPipelinePhase, <<"lens", "light">>)
                   ELSE Empty)
              @@ InstanceComp("source", "pixelization", PixelizationParams,
                              "phase_1_initialize_inversion", <<"source", "pixelization">>)
              @@ ModelComp("source", "regularization", RegularizationParams,
                           "phase_1_initialize_inversion", <<"source", "regularization">>),
          Observed, Optimizer(TRUE, 75, "0.2"), "-")

InversionPhase3(folders) ==
    Phase(InversionPhase3Name, folders,
          InversionProfiles("AdaptiveMagnification", "Constant"),
          LensConstant("phase_2_lens_sersic_sie_shear_source_inversion")
              @@ ModelComp("source", "pixelization", PixelizationParams,
                           "phase_2_lens_sersic_sie_shear_source_inversion",
                           <<"source", "pixelization">>)
              @@ ModelComp("source", "regularization", RegularizationParams,
                           "phase_2_lens_sersic_sie_shear_source_inversion",
                           <<"source", "regularization">>),
          Observed, Optimizer(TRUE, 20, "0.8"), "-")

\* tag.pipeline_name_from_name_and_settings: the name, tagged when the lens
\* light is fixed.
InversionPipelineName(pl_fix_lens_light) ==
    IF pl_fix_lens_light
    THEN "pipeline_inv__lens_sersic_sie_shear_source_inversion_fix_lens_light"
    ELSE "pipeline_inv__lens_sersic_sie_shear_source_inversion"

InversionReturned_Swapped(phase1, phase2, phase3) == <<phase2, phase1>>

\* return pipeline.PipelineImaging(pipeline_name, phase1, phase2)
InversionReturned(phase1, phase2, phase3) == <<phase1, phase2>>

Inversion(pl_fix_lens_light, phase_folders) ==
    LET pipeline_name == InversionPipelineName(pl_fix_lens_light)
        folders == phase_folders_from_phase_folders_and_pipeline_name(
                       phase_folders, pipeline_name)
    IN  Pipeline(pipeline_name,
                 InversionReturned(InversionPhase1(folders),
                                   InversionPhase2(pl_fix_lens_light, folders),
                                   InversionPhase3(folders)))

(***************************************************************************)
(* pipelines/hyper/with_lens_light/sersic/inversion/from_initialize/       *)
(*     lens_sersic_sie_shear_source_inversion.py                           *)
(***************************************************************************)
HyperGalaxies(pl_hyper_galaxies, phase) ==
    IF pl_hyper_galaxies
    THEN Comp("lens", "hyper_galaxy", HyperGalaxyParams,
              LAMBDA x : [Instance(phase, <<"lens", "hyper_galaxy", x>>)
                             EXCEPT !.arg = <<"hyper_galaxy">>])
         @@ Comp("source", "hyper_galaxy", HyperGalaxyParams,
                 LAMBDA x : [Instance(phase, <<"source", "hyper_galaxy", x>>)
                                EXCEPT !.arg = <<"hyper_galaxy">>])
    ELSE Empty

HyperProfiles(pl_hyper_galaxies) ==
    InversionProfiles("VoronoiBrightnessImage", "AdaptiveBrightness")
        @@ (IF pl_hyper_galaxies
            THEN (<<"lens", "hyper_galaxy">> :> "HyperGalaxy")
                     @@ (<<"source", "hyper_galaxy">> :> "HyperGalaxy")
            ELSE [c \in {} |-> "-"])

HyperInversionPhase1(pl_hyper_galaxies, folders) ==
    Phase(InversionPhase1Name, folders,
          HyperProfiles(pl_hyper_galaxies),
          LensConstant(PreviousPipelinePhase)
              @@ HyperGalaxies(pl_hyper_galaxies, PreviousPipelinePhase)
              @@ DefaultComp("source", "pixelization", PixelizationParams)
              @@ DefaultComp("source", "regularization", RegularizationParams),
          Observed, Optimizer(TRUE, 20, "0.8"), "hyper_and_inversion")

HyperInversionPhase2(pl_fix_lens_light, pl_hyper_galaxies, folders) ==
    Phase(InversionPhase2Name, folders,
          HyperProfiles(pl_hyper_galaxies),
          Override(LensVariable(PreviousPipelinePhase),
                   IF pl_fix_lens_light
                   THEN InstanceComp("lens", "light", ProfileParams,
                                     PreviousPipelinePhase, <<"lens", "light">>)
                   ELSE Empty)
              @@ Comp("source", "pixelization", PixelizationParams,
                      LAMBDA x : [Instance("phase_1_initialize_inversion",
                                           <<"source", "pixelization", x>>)
                                     EXCEPT !.arg = <<"inversion">>])
              @@ Comp("source", "regularization", RegularizationParams,
                      LAMBDA x : [Instance("phase_1_initialize_inversion",
                                           <<"source", "regularization", x>>)
                                     EXCEPT !.arg = <<"inversion">>])
              @@ HyperGalaxies(pl_hyper_galaxies, "phase_1_initialize_inversion"),
          Observed, Optimizer(TRUE, 75, "0.2"), "hyper_and_inversion")

HyperInversionPipelineName(pl_fix_lens_light) ==
    IF pl_fix_lens_light
    THEN "pipeline_inv__lens_sersic_sie_shear_source_inversion_fix_lens_light_pix_reg"
    ELSE "pipeline_inv__lens_sersic_sie_shear_source_inversion_pix_reg"

\* make_pipeline: phase_folders.append raises when phase_folders is None.
HyperInversion(pl_fix_lens_light, pl_hyper_galaxies, phase_folders) ==
    IF ~phase_folders.given THEN NoPipeline
    ELSE LET pipeline_name == HyperInversionPipelineName(pl_fix_lens_light)
             folders == phase_folders.list \o <<pipeline_name>>
         IN  Pipeline(pipeline_name,
                      <<HyperInversionPhase1(pl_hyper_galaxies, folders),
                        HyperInversionPhase2(pl_fix_lens_light, pl_hyper_galaxies, folders)>>)

(***************************************************************************)
(* pipelines/advanced/with_lens_light/source/parametric/                   *)
(*     lens_bulge_disk_sie__source_sersic.py                               *)
(* setup holds the caller's choices: setup.source.no_shear,                *)
(* lens_light_centre and lens_mass_centre (given or None),                 *)
(* lens_light_bulge_only, align_light_mass_centre, and the fields the      *)
(* light pipeline reads.                                                   *)
(***************************************************************************)
ParametricPhase1 == "phase_1__lens_bulge_disk"
ParametricPhase2 == "phase_2__lens_sie__source_sersic"
ParametricPhase3 == "phase_3__lens_bulge_disk_sie__source_fixed"
ParametricPhase4 == "phase_4__lens_bulge_disk_sie__source_sersic"

ParametricFolders(setup, phase_folders) ==
    phase_folders
        \o <<"pipeline_source__parametric__bulge_disk", "setup.general.tag",
             "setup.source.tag_no_inversion">>

Without(f, g, c) == [p \in {q \in DOMAIN f : ~(q[1] = g /\ q[2] = c)} |-> f[p]]

Centre(g, c, F(_)) == (<<g, c, "centre_0">> :> F("centre_0")) @@ (<<g, c, "centre_1">> :> F("centre_1"))

\* The hyper components a phase takes from result.hyper_combined.instance.optional.
OptionalHyper(phase) ==
    Comp("lens", "hyper_galaxy", HyperGalaxyParams,
         LAMBDA x : OptionalHyperInstance(phase, <<"lens", "hyper_galaxy", x>>))
        @@ Comp("source", "hyper_galaxy", HyperGalaxyParams,
                LAMBDA x : OptionalHyperInstance(phase, <<"source", "hyper_galaxy", x>>))
        @@ Comp("hyper", "image_sky", {"rest"},
                LAMBDA x : OptionalHyperInstance(phase, <<"hyper", "image_sky", x>>))
        @@ Comp("hyper", "background_noise", {"rest"},
                LAMBDA x : OptionalHyperInstance(phase, <<"hyper", "background_noise", x>>))

\* The lens light of phases 1 and 3: bulge and disk with default priors, the
\* bulge centre bound to the disk centre, both centres fixed to
\* setup.source.lens_light_centre when it is given, the disk dropped when
\* setup.source.lens_light_bulge_only.
BulgeDisk(setup) ==
    LET lens == DefaultComp("lens", "bulge", ProfileParams)
                    @@ DefaultComp("lens", "disk", ProfileParams)
        aligned == Override(lens, Centre("lens", "bulge",
                                         LAMBDA x : Shared(<<"lens", "disk", x>>)))
        centred == IF setup.lens_light_centre
                   THEN Override(aligned,
                            Centre("lens", "bulge",
                                   LAMBDA x : SetupValue("source.lens_light_centre"))
                            @@ Centre("lens", "disk",
                                   LAMBDA x : SetupValue("source.lens_light_centre")))
                   ELSE aligned
    IN  IF setup.lens_light_bulge_only THEN Without(centred, "lens", "disk") ELSE centred

BulgeDiskProfiles(setup) ==
    (<<"lens", "bulge">> :> "EllipticalSersic")
        @@ (IF setup.lens_light_bulge_only THEN [c \in {} |-> "-"]
            ELSE <<"lens", "disk">> :> "EllipticalExponential")

ParametricShear(setup) ==
    IF ~setup.no_shear THEN <<"lens", "shear">> :> "ExternalShear" ELSE [c \in {} |-> "-"]

MassCentre_AlignWins(setup) ==
    IF setup.align_light_mass_centre
    THEN Centre("lens", "mass",
                LAMBDA x : Instance(ParametricPhase1, <<"lens", "bulge", x>>))
    ELSE IF setup.lens_mass_centre
         THEN Centre("lens", "mass", LAMBDA x : SetupValue("source.lens_mass_centre"))
         ELSE Centre("lens", "mass",
                     LAMBDA x : ModelAbsolute(ParametricPhase1,
                                              <<"lens", "bulge", x>>, "0.1"))

\* The centre of the lens mass in phase 2.
MassCentre(setup) ==
    LET first == IF setup.align_light_mass_centre
                 THEN Centre("lens", "mass",
                             LAMBDA x : Instance(ParametricPhase1, <<"lens", "bulge", x>>))
                 ELSE Centre("lens", "mass",
                             LAMBDA x : ModelAbsolute(ParametricPhase1,
                                                      <<"lens", "bulge", x>>, "0.1"))
    IN  IF setup.lens_mass_centre
        THEN Centre("lens", "mass", LAMBDA x : SetupValue("source.lens_mass_centre"))
        ELSE first

ParametricSourcePhase1(setup, folders) ==
    Phase(ParametricPhase1, folders, BulgeDiskProfiles(setup), BulgeDisk(setup),
          Observed, Optimizer(TRUE, 40, "0.3"), "hyper")

ParametricSourcePhase2(setup, folders) ==
    Phase(ParametricPhase2, folders,
          BulgeDiskProfiles(setup)
              @@ (<<"lens", "mass">> :> "EllipticalIsothermal")
              @@ ParametricShear(setup)
              @@ (<<"source", "light">> :> "EllipticalSersic"),
          InstanceComp("lens", "bulge", ProfileParams, ParametricPhase1, <<"lens", "bulge">>)
              @@ (IF setup.lens_light_bulge_only THEN Empty
                  ELSE InstanceComp("lens", "disk", ProfileParams,
                                    ParametricPhase1, <<"lens", "disk">>))
              @@ Override(DefaultComp("lens", "mass", ProfileParams), MassCentre(setup))
              @@ (IF ~setup.no_shear THEN DefaultComp("lens", "shear", ShearParams) ELSE Empty)
              @@ DefaultComp("source", "light", ProfileParams)
              @@ OptionalHyper(ParametricPhase1),
          Observed, Optimizer(FALSE, 50, "0.5"), "hyper")

ParametricSourcePhase3_LightFromPhase1(setup, folders) ==
    Phase(ParametricPhase3, folders,
          BulgeDiskProfiles(setup)
              @@ (<<"lens", "mass">> :> "EllipticalIsothermal")
              @@ ParametricShear(setup)
              @@ (<<"source", "light">> :> "EllipticalSersic"),
          ModelComp("lens", "bulge", ProfileParams, ParametricPhase1, <<"lens", "bulge">>)
              @@ (IF setup.lens_light_bulge_only THEN Empty
                  ELSE ModelComp("lens", "disk", ProfileParams,
                                 ParametricPhase1, <<"lens", "disk">>))
              @@ InstanceComp("lens", "mass", ProfileParams, ParametricPhase2, <<"lens", "mass">>)
              @@ (IF ~setup.no_shear
                  THEN InstanceComp("lens", "shear", ShearParams,
                                    ParametricPhase2, <<"lens", "shear">>)
                  ELSE Empty)
              @@ InstanceComp("source", "light", ProfileParams,
                              ParametricPhase2, <<"source", "light">>)
              @@ OptionalHyper(ParametricPhase2),
          Observed, Optimizer(FALSE, 75, "0.5"), "hyper")

ParametricSourcePhase3(setup, folders) ==
    Phase(ParametricPhase3, folders,
          BulgeDiskProfiles(setup)
              @@ (<<"lens", "mass">> :> "EllipticalIsothermal")
              @@ ParametricShear(setup)
              @@ (<<"source", "light">> :> "EllipticalSersic"),
          BulgeDisk(setup)
              @@ InstanceComp("lens", "mass", ProfileParams, ParametricPhase2, <<"lens", "mass">>)
              @@ (IF ~setup.no_shear
                  THEN InstanceComp("lens", "shear", ShearParams,
                                    ParametricPhase2, <<"lens", "shear">>)
                  ELSE Empty)
              @@ InstanceComp("source", "light", ProfileParams,
                              ParametricPhase2, <<"source", "light">>)
              @@ OptionalHyper(ParametricPhase2),
          Observed, Optimizer(FALSE, 75, "0.5"), "hyper")

ParametricSourcePhase4(setup, folders) ==
    Phase(ParametricPhase4, folders,
          BulgeDiskProfiles(setup)
              @@ (<<"lens", "mass">> :> "EllipticalIsothermal")
              @@ ParametricShear(setup)
              @@ (<<"source", "light">> :> "EllipticalSersic"),
          ModelComp("lens", "bulge", ProfileParams, ParametricPhase3, <<"lens", "bulge">>)
              @@ (IF setup.lens_light_bulge_only THEN Empty
                  ELSE ModelComp("lens", "disk", ProfileParams,
                                 ParametricPhase3, <<"lens", "disk">>))
              @@ ModelComp("lens", "mass", ProfileParams, ParametricPhase2, <<"lens", "mass">>)
              @@ (IF ~setup.no_shear
                  THEN ModelComp("lens", "shear", ShearParams,
                                 ParametricPhase2, <<"lens", "shear">>)
                  ELSE Empty)
              @@ ModelComp("source", "light", ProfileParams,
                           ParametricPhase2, <<"source", "light">>)
              @@ OptionalHyper(ParametricPhase3),
          Observed, Optimizer(TRUE, 75, "0.3"), "hyper")

\* make_pipeline: phase_folders.append raises when phase_folders is None.
ParametricSource(setup, phase_folders) ==
    IF ~phase_folders.given THEN NoPipeline
    ELSE LET folders == ParametricFolders(setup, phase_folders.list)
         IN  Pipeline("pipeline_source__parametric__bulge_disk",
                      <<ParametricSourcePhase1(setup, folders),
                        ParametricSourcePhase2(setup, folders),
                        ParametricSourcePhase3(setup, folders),
                        ParametricSourcePhase4(setup, folders)>>)

(***************************************************************************)
(* pipelines/advanced/with_lens_light/light/gaussians/                     *)
(*     lens_gaussians_sie__source.py                                       *)
(***************************************************************************)
GaussiansPhase1 == "phase_1__lens_bulge_disk_sie__source"

GaussiansFolders(setup, phase_folders) ==
    phase_folders
        \o <<"pipeline_light__gaussians", "setup.general.tag", "setup.source.tag",
             "setup.light.tag">>

GaussiansHyperGalaxy(setup) ==
    IF setup.hyper_galaxies
    THEN (<<"lens", "hyper_galaxy", "rest">> :>
              [Instance(Last, <<"lens", "hyper_galaxy", "rest">>)
                  EXCEPT !.arg = <<"hyper_combined">>])
         @@ (<<"lens", "hyper_galaxy", "noise_factor">> :>
                 [Model(Last, <<"lens", "hyper_galaxy", "noise_factor">>)
                     EXCEPT !.arg = <<"hyper_combined">>])
    ELSE Empty

GaussiansAlignment(setup) ==
    (IF setup.align_bulge_disk_centre
     THEN Centre("lens", "bulge", LAMBDA x : Shared(<<"lens", "disk", x>>))
     ELSE Empty)
        @@ (IF setup.align_bulge_disk_axis_ratio
            THEN <<"lens", "bulge", "axis_ratio">> :> Shared(<<"lens", "disk", "axis_ratio">>)
            ELSE Empty)
        @@ (IF setup.align_bulge_disk_phi
            THEN <<"lens", "bulge", "phi">> :> Shared(<<"lens", "disk", "phi">>)
            ELSE Empty)

GaussiansLightPhase1(setup, folders) ==
    Phase(GaussiansPhase1, folders,
          (<<"lens", "bulge">> :> "EllipticalSersic")
              @@ (<<"lens", "disk">> :>
                      IF setup.disk_as_sersic THEN "EllipticalSersic"
                      ELSE "EllipticalExponential")
              @@ (<<"lens", "mass">> :> "EllipticalIsothermal")
              @@ ParametricShear(setup)
              @@ (IF setup.hyper_galaxies THEN <<"lens", "hyper_galaxy">> :> "HyperGalaxy"
                  ELSE [c \in {} |-> "-"]),
          Override(DefaultComp("lens", "bulge", ProfileParams)
                       @@ DefaultComp("lens", "disk", ProfileParams),
                   GaussiansAlignment(setup))
              @@ InstanceComp("lens", "mass", ProfileParams, Last, <<"lens", "mass">>)
              @@ (IF ~setup.no_shear
                  THEN InstanceComp("lens", "shear", ShearParams, Last, <<"lens", "shear">>)
                  ELSE Empty)
              @@ GaussiansHyperGalaxy(setup)
              @@ Comp("source", "galaxy", {"all"},
                      LAMBDA x : Instance(Last, <<"source", "galaxy", x>>))
              @@ Comp("hyper", "image_sky", {"rest"},
                      LAMBDA x : OptionalHyperInstance(Last, <<"hyper", "image_sky", x>>))
              @@ Comp("hyper", "background_noise", {"rest"},
                      LAMBDA x : OptionalHyperInstance(Last, <<"hyper", "background_noise", x>>)),
          Observed, Optimizer(TRUE, 50, "0.2"), "hyper")

\* make_pipeline: phase_folders.append raises when phase_folders is None.
GaussiansLight(setup, phase_folders) ==
    IF ~phase_folders.given THEN NoPipeline
    ELSE LET folders == GaussiansFolders(setup, phase_folders.list)
         IN  Pipeline("pipeline_light__gaussians", <<GaussiansLightPhase1(setup, folders)>>)

(***************************************************************************)
(* The pipelines of runners/hyper/runner_hyper_galaxies_no_lens_light.py   *)
(* (the modules of workspace.pipelines.hyper.no_lens_light) are not among  *)
(* the sources: each is taken to be a pipeline of two phases that read no  *)
(* results.                                                                *)
(***************************************************************************)
RunnerPhase(phase_name, folders) ==
    Phase(phase_name, folders, [c \in {} |-> "-"], Empty, Observed,
          Optimizer(TRUE, 50, "0.5"), "hyper")

RunnerPipeline(pipeline_name, phase_names, phase_folders) ==
    Pipeline(pipeline_name,
             [i \in DOMAIN phase_names |->
                 RunnerPhase(phase_names[i], phase_folders.list \o <<pipeline_name>>)])

pipeline_initialize(phase_folders) ==
    RunnerPipeline("pipeline_init_hyper__lens_sie__source_sersic",
                   <<"initialize__phase_1", "initialize__phase_2">>, phase_folders)

pipeline_inversion(phase_folders) ==
    RunnerPipeline("pipeline_inv_hyper__lens_sie__source_inversion",
                   <<"inversion__phase_1", "inversion__phase_2">>, phase_folders)

pipeline_power_law(phase_folders) ==
    RunnerPipeline("pipeline_power_law_hyper__lens_power_law__source_inversion",
                   <<"power_law__phase_1", "power_law__phase_2">>, phase_folders)

(***************************************************************************)
(* Pipeline.__add__: the phases of the left pipeline, then those of the    *)
(* right one.  An exception raised while a pipeline is made ends the       *)
(* script before anything is added.                                        *)
(***************************************************************************)
Add(p, q) ==
    IF p.ok /\ q.ok THEN Pipeline(<<p.name, "+", q.name>>, p.phases \o q.phases)
    ELSE NoPipeline

Named(p) == IF p.ok THEN [p EXCEPT !.name = <<p.name>>] ELSE p

(***************************************************************************)
(* The callers.  "runner" is runner_hyper_galaxies_no_lens_light.py; the   *)
(* others make one pipeline of pipelines/, or the pipeline together with   *)
(* the previous pipeline its header names, and run it.                     *)
(***************************************************************************)
Scripts ==
    {"simple_inversion", "simple_sersic", "inversion", "hyper_inversion",
     "sersic_then_inversion", "parametric_source", "gaussians_light",
     "source_then_light", "simple_inversion_then_sersic", "runner"}

RunnerComposite_InversionFirst(a) ==
    Add(Add(Named(pipeline_inversion(a.phase_folders)),
            Named(pipeline_initialize(a.phase_folders))),
        Named(pipeline_power_law(a.phase_folders)))

\* pipeline = pipeline_initialize + pipeline_inversion + pipeline_power_law
RunnerComposite(a) ==
    Add(Add(Named(pipeline_initialize(a.phase_folders)),
            Named(pipeline_inversion(a.phase_folders))),
        Named(pipeline_power_law(a.phase_folders)))

Composite(s, a) ==
    CASE s = "simple_inversion" -> Named(SimpleInversion(a.include_shear, a.phase_folders))
      [] s = "simple_sersic" -> Named(SimpleSersic(a.phase_folders))
      [] s = "inversion" -> Named(Inversion(a.pl_fix_lens_light, a.phase_folders))
      [] s = "hyper_inversion" ->
             Named(HyperInversion(a.pl_fix_lens_light, a.pl_hyper_galaxies, a.phase_folders))
      [] s = "sersic_then_inversion" ->
             Add(Named(SimpleSersic(a.phase_folders)),
                 Named(Inversion(a.pl_fix_lens_light, a.phase_folders)))
      [] s = "parametric_source" -> Named(ParametricSource(a.setup, a.phase_folders))
      [] s = "gaussians_light" -> Named(GaussiansLight(a.setup, a.phase_folders))
      [] s = "source_then_light" ->
             Add(Named(ParametricSource(a.setup, a.phase_folders)),
                 Named(GaussiansLight(a.setup, a.phase_folders)))
      [] s = "simple_inversion_then_sersic" ->
             Add(Named(SimpleInversion(a.include_shear, a.phase_folders)),
                 Named(SimpleSersic(a.phase_folders)))
      [] s = "runner" -> RunnerComposite(a)

\* The arguments of make_pipeline and their defaults.
DefaultSetup ==
    [no_shear |-> FALSE, lens_light_centre |-> FALSE, lens_light_bulge_only |-> FALSE,
     align_light_mass_centre |-> FALSE, lens_mass_centre |-> FALSE,
     hyper_galaxies |-> FALSE, disk_as_sersic |-> FALSE,
     align_bulge_disk_centre |-> FALSE, align_bulge_disk_axis_ratio |-> FALSE,
     align_bulge_disk_phi |-> FALSE]

SourceSetups ==
    {[DefaultSetup EXCEPT !.no_shear = b[1], !.lens_light_centre = b[2],
                          !.lens_light_bulge_only = b[3],
                          !.align_light_mass_centre = b[4], !.lens_mass_centre = b[5]] :
        b \in [1..5 -> BOOLEAN]}

LightSetups ==
    {[DefaultSetup EXCEPT !.no_shear = b[1], !.hyper_galaxies = b[2],
                          !.disk_as_sersic = b[3], !.align_bulge_disk_centre = b[4],
                          !.align_bulge_disk_axis_ratio = b[5],
                          !.align_bulge_disk_phi = b[6]] :
        b \in [1..6 -> BOOLEAN]}

PhaseFolderArgs == {None, List(<<>>), List(<<"example", "lens_sie__source_sersic">>)}

DefaultArgs ==
    [include_shear |-> TRUE, pl_fix_lens_light |-> FALSE, pl_hyper_galaxies |-> TRUE,
     setup |-> DefaultSetup, phase_folders |-> None]

ArgsOf(s) ==
    CASE s \in {"simple_inversion", "simple_inversion_then_sersic"} ->
             {[DefaultArgs EXCEPT !.include_shear = b, !.phase_folders = f] :
                 b \in BOOLEAN, f \in PhaseFolderArgs}
      [] s = "simple_sersic" ->
             {[DefaultArgs EXCEPT !.phase_folders = f] : f \in PhaseFolderArgs}
      [] s \in {"inversion", "sersic_then_inversion"} ->
             {[DefaultArgs EXCEPT !.pl_fix_lens_light = b, !.phase_folders = f] :
                 b \in BOOLEAN, f \in PhaseFolderArgs}
      [] s = "hyper_inversion" ->
             {[DefaultArgs EXCEPT !.pl_fix_lens_light = b[1], !.pl_hyper_galaxies = b[2],
                                  !.phase_folders = f] :
                 b \in [1..2 -> BOOLEAN], f \in PhaseFolderArgs}
      [] s = "parametric_source" ->
             {[DefaultArgs EXCEPT !.setup = u, !.phase_folders = f] :
                 u \in SourceSetups, f \in PhaseFolderArgs}
      [] s = "gaussians_light" ->
             {[DefaultArgs EXCEPT !.setup = u, !.phase_folders = f] :
                 u \in LightSetups, f \in PhaseFolderArgs}
      [] s = "source_then_light" ->
             {[DefaultArgs EXCEPT !.setup = u, !.phase_folders = f] :
                 u \in SourceSetups \cup LightSetups, f \in PhaseFolderArgs}
      [] s = "runner" ->
             {[DefaultArgs EXCEPT
                  !.phase_folders = List(<<"example", "lens_sie__source_sersic">>)]}

(***************************************************************************)
(* The run of a pipeline (pipeline.run of the library, as sections 5 and 7 *)
(* of the specification describe it): the phases run one after the other,  *)
(* each with the results of the phases before it; a phase looks its priors *)
(* up, fits, and records its result; an exception raised by a phase is not *)
(* caught by anything.                                                     *)
(***************************************************************************)
Outcomes == {"fit_a", "fit_b"}

\* The phases whose results the configuration of phase ph reads.
Reads(ph) ==
    {ph.priors[p].phase : p \in {q \in DOMAIN ph.priors :
                                    ph.priors[q].kind \in {"instance", "model"}}}
        \cup (IF ph.image.kind = "observed" THEN {} ELSE {ph.image.phase})

\* results.from_phase(name), results[-1] and af.last: the position of the
\* result in the collection, 0 when there is none (the lookup raises).
Lookup(name, res) ==
    IF name = Last THEN Len(res)
    ELSE IF \E i \in DOMAIN res : res[i].name = name
         THEN CHOOSE i \in DOMAIN res :
                  res[i].name = name /\ \A j \in DOMAIN res : res[j].name = name => i <= j
         ELSE 0

Resolves(ph, res) == \A name \in Reads(ph) : Lookup(name, res) # 0

\* What is left of the script once an exception leaves pipeline.run or
\* make_pipeline: nothing catches it.
AfterFailure_Retry == "built"

AfterFailure == "terminated"

RunInit ==
    /\ script \in Scripts
    /\ args \in ArgsOf(script)
    /\ pipeline = NoPipeline
    /\ status = "script"
    /\ running = {}
    /\ started = <<>>
    /\ results = <<>>
    /\ failed = NoFailure
    /\ values = <<>>
    /\ weights = <<>>
    /\ returned = NoValue
    /\ AggIdle

MakePipelines ==
    /\ status = "script"
    /\ LET made == Composite(script, args)
       IN  IF made.ok
           THEN /\ pipeline' = made
                /\ status' = "built"
                /\ UNCHANGED failed
           ELSE /\ pipeline' = made
                /\ status' = AfterFailure
                /\ failed' = [phase |-> 0, cause |-> "make_pipeline"]
    /\ UNCHANGED <<script, args, running, started, results, stats_vars, agg_vars>>

NextPhase == Len(results) + 1

StartPhase ==
    /\ status = "built"
    /\ running = {}
    /\ NextPhase <= Len(pipeline.phases)
    /\ Resolves(pipeline.phases[NextPhase], results)
    /\ running' = {NextPhase}
    /\ started' = Append(started, pipeline.phases[NextPhase].name)
    /\ UNCHANGED <<script, args, pipeline, status, results, failed, stats_vars, agg_vars>>

LookupFails ==
    /\ status = "built"
    /\ running = {}
    /\ NextPhase <= Len(pipeline.phases)
    /\ ~Resolves(pipeline.phases[NextPhase], results)
    /\ started' = Append(started, pipeline.phases[NextPhase].name)
    /\ failed' = [phase |-> NextPhase, cause |-> "prior_lookup"]
    /\ status' = AfterFailure
    /\ UNCHANGED <<script, args, pipeline, running, results, stats_vars, agg_vars>>

PhaseFails ==
    /\ status = "built"
    /\ \E i \in running, cause \in {"data", "optimizer"} :
          /\ running' = running \ {i}
          /\ failed' = [phase |-> i, cause |-> cause]
          /\ status' = AfterFailure
    /\ UNCHANGED <<script, args, pipeline, started, results, stats_vars, agg_vars>>

FinishPhase ==
    /\ status = "built"
    /\ \E i \in running, outcome \in Outcomes :
          /\ running' = running \ {i}
          /\ results' = Append(results, [name |-> pipeline.phases[i].name,
                                         outcome |-> outcome])
    /\ UNCHANGED <<script, args, pipeline, status, started, failed, stats_vars, agg_vars>>

RunReturns ==
    /\ status = "built"
    /\ running = {}
    /\ NextPhase > Len(pipeline.phases)
    /\ status' = "completed"
    /\ UNCHANGED <<script, args, pipeline, running, started, results, failed,
                   stats_vars, agg_vars>>

Next ==
    \/ MakePipelines
    \/ StartPhase
    \/ LookupFails
    \/ PhaseFails
    \/ FinishPhase
    \/ RunReturns

Spec == RunInit /\ [][Next]_vars

(***************************************************************************)
(* Claims about weighted_mean_and_standard_deviation (SpecStats).          *)
(***************************************************************************)
Precondition ==
    /\ Len(values) > 0
    /\ Len(values) = Len(weights)
    /\ SumSeq(weights) > 0

NonNegativeWeights == \A i \in DOMAIN weights : weights[i] >= 0

MeanWithinRange ==
    /\ returned # Raised
    /\ RatLeq(Rat(MinOf(values), 1), returned.average)
    /\ RatLeq(returned.average, Rat(MaxOf(values), 1))

\* C3 as stated: for all non-empty arrays of equal length whose weights sum to
\* a positive number, the returned mean lies within [min(values), max(values)].
C3_MeanWithinRange_AnyWeights ==
    (returned # NoValue /\ Precondition) => MeanWithinRange

\* C3 amended: for all non-empty arrays of equal length whose weights are all
\* non-negative and sum to a positive number, the returned mean lies within
\* [min(values), max(values)].
C3_MeanWithinRange ==
    (returned # NoValue /\ Precondition /\ NonNegativeWeights) => MeanWithinRange

C3_Witness ==
    /\ returned # NoValue
    /\ Precondition
    /\ NonNegativeWeights
    /\ returned # Raised
    /\ RatLeq(Rat(MinOf(values), 1), returned.average)
    /\ returned.average # Rat(MinOf(values), 1)
    /\ returned.average # Rat(MaxOf(values), 1)

\* C4 as stated: for all non-empty arrays of equal length whose weights sum to
\* a positive number, the returned deviation is a non-negative number: the
\* variance whose root is taken is never negative.
C4_DeviationNonNegative_AnyWeights ==
    (returned # NoValue /\ Precondition) =>
        (returned # Raised /\ returned.deviation # NaN)

\* C4 amended: for all non-empty arrays of equal length whose weights are all
\* non-negative and sum to a positive number, the variance is never negative
\* and the returned deviation is a non-negative number.
C4_DeviationNonNegative ==
    (returned # NoValue /\ Precondition /\ NonNegativeWeights) =>
        (/\ returned # Raised
         /\ returned.deviation # NaN
         /\ returned.deviation.radicand.num >= 0)

C4_Witness ==
    /\ returned # NoValue
    /\ Precondition
    /\ NonNegativeWeights
    /\ returned # Raised
    /\ returned.deviation # NaN
    /\ returned.deviation.radicand.num > 0

(***************************************************************************)
(* Claims about the loop over the fit outputs (SpecAgg).                   *)
(***************************************************************************)
IsMean(x) == "num" \in DOMAIN x

\* C8: the entry appended to einstein_mass_errors for each output is the
\* weighted mean, the value appended to einstein_masses, not the computed
\* deviation: the two lists are equal element for element and the computed
\* error is never stored.
C8_ErrorsAreMeans ==
    /\ einstein_mass_errors = einstein_masses
    /\ Len(einstein_masses) = output_index
    /\ \A i \in DOMAIN einstein_mass_errors :
          /\ IsMean(einstein_mass_errors[i])
          /\ (i = Len(einstein_mass_errors) /\ agg_status # "raised") =>
                 (einstein_mass_errors[i] = value /\ einstein_mass_errors[i] # error)

C8_Witness ==
    /\ agg_status = "printed"
    /\ Len(einstein_mass_errors) = 2
    /\ einstein_mass_errors[1] # einstein_mass_errors[2]
    /\ error # NaN
    /\ error.radicand.num > 0

(***************************************************************************)
(* Claims about the pipelines and their run (Spec).                        *)
(***************************************************************************)
PhaseNames(phases) == [i \in DOMAIN phases |-> phases[i].name]

HasStarted(i) == i \in running \/ i <= Len(results)

\* C1: every result that the configuration of phase N reads belongs to a
\* phase that comes strictly earlier in the execution order: no phase of a
\* pipeline that make_pipeline returns reads its own result or that of a
\* later phase, and what a running phase has read was recorded by an
\* earlier phase.
C1_PriorsFromEarlierPhases ==
    pipeline.ok =>
        \A i \in DOMAIN pipeline.phases :
            \A name \in Reads(pipeline.phases[i]) :
                /\ \A k \in DOMAIN pipeline.phases :
                       pipeline.phases[k].name = name => k < i
                /\ HasStarted(i) =>
                       LET j == Lookup(name, SubSeq(results, 1, i - 1))
                       IN  /\ j \in 1..(i - 1)
                           /\ name # Last =>
                                  (results[j].name = name /\ pipeline.phases[j].name = name)
                           /\ name = Last => j = i - 1

C1_Witness ==
    /\ script = "sersic_then_inversion"
    /\ status = "completed"
    /\ Len(results) = 5
    /\ Reads(pipeline.phases[5]) =
           {"phase_3_lens_sersic_sie_shear_source_sersic", "phase_1_initialize_inversion"}

\* C2: phases start in the order they were listed, all phases of an earlier
\* pipeline before any phase of a later one (the runner's composite:
\* initialize, inversion, power law); a phase starts only after every
\* earlier phase has completed and recorded its result; at most one phase
\* runs at any time.
C2_SequentialPhases ==
    /\ Cardinality(running) <= 1
    /\ Len(started) <= Len(pipeline.phases)
    /\ started = SubSeq(PhaseNames(pipeline.phases), 1, Len(started))
    /\ Len(results) <= Len(started)
    /\ [i \in DOMAIN results |-> results[i].name] =
           SubSeq(PhaseNames(pipeline.phases), 1, Len(results))
    /\ \A i \in running : i = Len(started) /\ Len(results) = i - 1
    /\ (script = "runner" /\ pipeline.ok) =>
           PhaseNames(pipeline.phases) =
               <<"initialize__phase_1", "initialize__phase_2", "inversion__phase_1",
                 "inversion__phase_2", "power_law__phase_1", "power_law__phase_2">>

C2_Witness ==
    /\ script = "runner"
    /\ running = {5}
    /\ Len(results) = 4
    /\ started = <<"initialize__phase_1", "initialize__phase_2", "inversion__phase_1",
                   "inversion__phase_2", "power_law__phase_1">>

\* C5: if a phase of a run fails, the run terminates at that phase: the
\* failed phase is not retried, no later phase is started, the results of the
\* phases completed before it are left as they were, and no result is
\* recorded for the failed phase or a later one.
C5_AfterFailure ==
    /\ status = "terminated"
    /\ running = {}
    /\ Len(started) = failed.phase
    /\ started = SubSeq(PhaseNames(pipeline.phases), 1, failed.phase)
    /\ Len(results) = failed.phase - 1
    /\ [i \in DOMAIN results |-> results[i].name] =
           SubSeq(PhaseNames(pipeline.phases), 1, failed.phase - 1)

C5_FailureTerminatesRun ==
    [][/\ failed.phase >= 1 => UNCHANGED <<status, running, started, results, failed>>
       /\ (failed.phase = 0 /\ failed'.phase >= 1) =>
              (C5_AfterFailure' /\ results' = results)]_vars

C5_Witness ==
    /\ script = "simple_sersic"
    /\ failed = [phase |-> 2, cause |-> "optimizer"]
    /\ status = "terminated"
    /\ Len(results) = 1
    /\ Len(pipeline.phases) = 3

(***************************************************************************)
(* The states a parameter can be in once its pipeline is built.            *)
(***************************************************************************)
\* The phase named by a prior comes earlier: it is the last phase before
\* this one, a phase of the previous pipeline, or an earlier phase of the
\* same pipeline.
FromEarlierPhase(prior, phases, i) ==
    \/ prior.phase = Last
    \/ /\ prior.phase = PreviousPipelinePhase
       /\ \A k \in DOMAIN phases : phases[k].name = prior.phase => k < i
    \/ \E k \in 1..(i - 1) : phases[k].name = prior.phase

FixedToEarlierEstimate(prior, phases, i) ==
    /\ prior.kind = "instance"
    /\ FromEarlierPhase(prior, phases, i)
    /\ Len(prior.path) = 3

RecentredOnEarlierEstimate(prior, phases, i) ==
    /\ prior.kind = "model"
    /\ FromEarlierPhase(prior, phases, i)
    /\ Len(prior.path) = 3
    /\ prior.arg \in {<<>>, <<"absolute", "0.1">>, <<"hyper_combined">>}

LeftAsDefault(prior) == prior = Default

ExplicitPrior(prior, p) ==
    /\ prior = GaussianPrior("0.0", "0.1")
    /\ p[3] \in {"centre_0", "centre_1"}

FixedToSetupValue(prior, p) ==
    /\ prior.kind = "value"
    /\ prior.phase = "-"
    /\ p[3] \in {"centre_0", "centre_1"}
    /\ \/ prior.arg = <<"source.lens_light_centre">> /\ args.setup.lens_light_centre
       \/ prior.arg = <<"source.lens_mass_centre">> /\ args.setup.lens_mass_centre

BoundToOtherParameter(prior, p) ==
    /\ prior = Shared(<<p[1], "disk", p[3]>>)
    /\ p[2] = "bulge"

\* C6 as stated: after a pipeline is built, every parameter of every phase is
\* fixed to an earlier phase's best estimate, or a distribution re-centred on
\* an earlier phase's estimate, or left as its default prior.
C6_ThreeOutcomes ==
    pipeline.ok =>
        \A i \in DOMAIN pipeline.phases :
            \A p \in DOMAIN pipeline.phases[i].priors :
                LET prior == pipeline.phases[i].priors[p]
                IN  \/ FixedToEarlierEstimate(prior, pipeline.phases, i)
                    \/ RecentredOnEarlierEstimate(prior, pipeline.phases, i)
                    \/ LeftAsDefault(prior)

\* C6 amended: after a pipeline is built, every parameter of every phase is in
\* exactly one of six states: the three above, given a prior the pipeline
\* writes itself (GaussianPrior(mean=0.0, sigma=0.1) on a centre), fixed to a
\* value the caller's setup supplies, or bound to the prior of the same
\* parameter of the disk.
C6_SixOutcomes ==
    pipeline.ok =>
        \A i \in DOMAIN pipeline.phases :
            \A p \in DOMAIN pipeline.phases[i].priors :
                LET prior == pipeline.phases[i].priors[p]
                    outcomes ==
                        <<FixedToEarlierEstimate(prior, pipeline.phases, i),
                          RecentredOnEarlierEstimate(prior, pipeline.phases, i),
                          LeftAsDefault(prior),
                          ExplicitPrior(prior, p),
                          FixedToSetupValue(prior, p),
                          BoundToOtherParameter(prior, p)>>
                IN  Cardinality({n \in DOMAIN outcomes : outcomes[n]}) = 1

C6_Witness ==
    /\ script = "parametric_source"
    /\ pipeline.ok
    /\ args.setup.lens_mass_centre
    /\ ~args.setup.lens_light_centre
    /\ pipeline.phases[1].priors[<<"lens", "bulge", "centre_0">>].kind = "shared"
    /\ pipeline.phases[2].priors[<<"lens", "mass", "centre_0">>].kind = "value"
    /\ pipeline.phases[2].priors[<<"lens", "bulge", "rest">>].kind = "instance"
    /\ pipeline.phases[4].priors[<<"lens", "mass", "rest">>].kind = "model"
    /\ pipeline.phases[3].priors[<<"lens", "bulge", "rest">>].kind = "default"

(***************************************************************************)
(* The folders of the phases.                                              *)
(***************************************************************************)
FoldersOf(phase_names, expected) ==
    \A i \in DOMAIN pipeline.phases :
        pipeline.phases[i].name \in phase_names => pipeline.phases[i].folders = expected

\* C7: after make_pipeline returns, every phase of the pipeline holds the
\* same folder list: the caller's phase_folders entries in their order, then
\* the pipeline name, then the tags of the pipeline in a fixed order.
C7_FoldersFromNameAndTags ==
    pipeline.ok =>
        /\ script = "simple_inversion" =>
               /\ Len(pipeline.phases) = 3
               /\ \A i \in DOMAIN pipeline.phases :
                      pipeline.phases[i].folders =
                          args.phase_folders.list
                              \o <<"pipeline__sie__source_inversion", "pipeline_tag">>
        /\ script \in {"parametric_source", "source_then_light"} =>
               FoldersOf({ParametricPhase1, ParametricPhase2, ParametricPhase3,
                          ParametricPhase4},
                         args.phase_folders.list
                             \o <<"pipeline_source__parametric__bulge_disk",
                                  "setup.general.tag", "setup.source.tag_no_inversion">>)
        /\ script \in {"gaussians_light", "source_then_light"} =>
               FoldersOf({GaussiansPhase1},
                         args.phase_folders.list
                             \o <<"pipeline_light__gaussians", "setup.general.tag",
                                  "setup.source.tag", "setup.light.tag">>)

C7_Witness ==
    /\ script = "source_then_light"
    /\ pipeline.ok
    /\ Len(pipeline.phases) = 5
    /\ args.phase_folders.list = <<"example", "lens_sie__source_sersic">>
    /\ pipeline.phases[5].folders =
           <<"example", "lens_sie__source_sersic", "pipeline_light__gaussians",
             "setup.general.tag", "setup.source.tag", "setup.light.tag">>

\* C9: the pipeline that make_pipeline of
\* pipelines/with_lens_light/inversion/from_initialize returns runs the three
\* phases its header describes, in order.
C9_ThreePhasesReturned ==
    (script = "inversion" /\ pipeline.ok) =>
        PhaseNames(pipeline.phases) =
            <<"phase_1_initialize_inversion",
              "phase_2_lens_sersic_sie_shear_source_inversion",
              "phase_3_lens_sersic_sie_shear_refine_source_inversion">>

\* C10: when the simple pipeline lens_sersic_sie_shear_source_sersic and the
\* inversion pipeline are run as one pipeline, every phase name that a phase
\* of the inversion pipeline looks up names a phase that has completed
\* earlier in the run: no lookup is unresolved.
C10_LookupsResolved ==
    script = "sersic_then_inversion" =>
        /\ failed.cause # "prior_lookup"
        /\ pipeline.ok =>
               \A i \in 4..Len(pipeline.phases) :
                   /\ Reads(pipeline.phases[i]) # {}
                   /\ \A name \in Reads(pipeline.phases[i]) :
                          /\ \E k \in 1..(i - 1) : pipeline.phases[k].name = name
                          /\ Len(results) = i - 1 =>
                                 \E k \in DOMAIN results : results[k].name = name
        /\ pipeline.ok =>
               \A name \in Reads(InversionPhase3(args.phase_folders.list)) :
                   \E k \in DOMAIN pipeline.phases : pipeline.phases[k].name = name

C10_Witness ==
    /\ script = "sersic_then_inversion"
    /\ running = {5}
    /\ Len(results) = 4
    /\ results[3].name = "phase_3_lens_sersic_sie_shear_source_sersic"
    /\ results[4].name = "phase_1_initialize_inversion"

(***************************************************************************)
(* An inversion pipeline run without the pipeline it follows.              *)
(***************************************************************************)
\* C11: when an inversion-from-initialize pipeline (with_lens_light or hyper)
\* is run on its own, phase 1 looks up
\* 'phase_3_lens_sersic_sie_shear_source_sersic', which no result has: the
\* lookup fails, nothing catches the failure, the run ends there and no phase
\* of the pipeline has performed a fit.
C11_StandaloneLookupFails ==
    (script \in {"inversion", "hyper_inversion"} /\ pipeline.ok) =>
        /\ results = <<>>
        /\ running = {}
        /\ status \in {"built", AfterFailure}
        /\ PreviousPipelinePhase \in Reads(pipeline.phases[1])
        /\ ~Resolves(pipeline.phases[1], results)
        /\ status = "built" => (started = <<>> /\ failed = NoFailure)
        /\ status = AfterFailure =>
               /\ failed = [phase |-> 1, cause |-> "prior_lookup"]
               /\ started = <<pipeline.phases[1].name>>

C11_Witness ==
    /\ script = "hyper_inversion"
    /\ pipeline.ok
    /\ status = "terminated"
    /\ failed = [phase |-> 1, cause |-> "prior_lookup"]
    /\ results = <<>>

(***************************************************************************)
(* The phases of pipelines/simple/lens_sersic_sie_shear_source_sersic.py.  *)
(***************************************************************************)
\* The positions of the phase of that name in the pipeline.
PhasesNamed(name) == {i \in DOMAIN pipeline.phases : pipeline.phases[i].name = name}

RunsSimpleSersic ==
    script \in {"simple_sersic", "sersic_then_inversion", "simple_inversion_then_sersic"}

Parameters(component, params) == {<<component[1], component[2], x>> : x \in params}

\* C12: in phase 3 of the simple pipeline every parameter of the lens light is
\* a distribution taken from the result of phase 1 (variable), every parameter
\* of the lens mass, the shear and the source from the result of phase 2
\* (variable); nothing is fixed and nothing comes from another phase.
C12_Phase3Variables ==
    (RunsSimpleSersic /\ pipeline.ok) =>
        /\ PhasesNamed("phase_3_lens_sersic_sie_shear_source_sersic") # {}
        /\ \A i \in PhasesNamed("phase_3_lens_sersic_sie_shear_source_sersic") :
               LET priors == pipeline.phases[i].priors
               IN  /\ DOMAIN priors =
                          Parameters(<<"lens", "light">>, ProfileParams)
                              \cup Parameters(<<"lens", "mass">>, ProfileParams)
                              \cup Parameters(<<"lens", "shear">>, ShearParams)
                              \cup Parameters(<<"source", "light">>, ProfileParams)
                   /\ \A p \in DOMAIN priors :
                          /\ priors[p].kind = "model"
                          /\ priors[p].arg = <<>>
                          /\ priors[p].path = p
                          /\ priors[p].phase =
                                 IF <<p[1], p[2]>> = <<"lens", "light">>
                                 THEN "phase_1_lens_sersic"
                                 ELSE "phase_2_lens_sie_shear_source_sersic"

C12_Witness ==
    /\ script = "simple_sersic"
    /\ running = {3}
    /\ pipeline.phases[3].name = "phase_3_lens_sersic_sie_shear_source_sersic"
    /\ pipeline.phases[3].priors[<<"lens", "light", "rest">>].kind = "model"
    /\ Len(results) = 2

C14_SubtractsPhase1Image ==
    (RunsSimpleSersic /\ pipeline.ok) =>
        \A i \in PhasesNamed("phase_2_lens_sie_shear_source_sersic") :
            /\ pipeline.phases[i].image = [kind |-> "minus_unmasked_model_image",
                                           phase |-> Last]
            /\ i \in running =>
                   /\ Lookup(pipeline.phases[i].image.phase, results) = i - 1
                   /\ results[Lookup(pipeline.phases[i].image.phase, results)].name
                          = "phase_1_lens_sersic"

C14_Witness ==
    /\ script = "simple_inversion_then_sersic"
    /\ running = {5}
    /\ Len(results) = 4
    /\ results[1].name = "phase_1__source_sersic"
    /\ results[4].name = "phase_1_lens_sersic"

(***************************************************************************)
(* The phases of pipelines/simple/lens_sie__source_inversion.py.           *)
(***************************************************************************)
RunsSimpleInversion == script \in {"simple_inversion", "simple_inversion_then_sersic"}

\* The parameters of a phase that its fit varies.
FreeParameters(phase) ==
    {p \in DOMAIN phase.priors : phase.priors[p].kind \notin {"instance", "value"}}

C17_ShearThroughout ==
    (RunsSimpleInversion /\ pipeline.ok) =>
        \A i \in 1..3 :
            LET phase == pipeline.phases[i]
                shear == {p \in DOMAIN phase.priors : p[1] = "lens" /\ p[2] = "shear"}
            IN  IF args.include_shear
                THEN /\ HasShear(phase)
                     /\ phase.profiles[<<"lens", "shear">>] = "ExternalShear"
                     /\ shear = Parameters(<<"lens", "shear">>, ShearParams)
                ELSE /\ ~HasShear(phase)
                     /\ shear = {}

C17_Witness ==
    /\ script = "simple_inversion"
    /\ ~args.include_shear
    /\ status = "completed"
    /\ Len(results) = 3
    /\ \A i \in 1..3 : ~HasShear(pipeline.phases[i])

(***************************************************************************)
(* The phases of the parametric bulge-disk source pipeline.                *)
(***************************************************************************)
RunsParametricSource == script \in {"parametric_source", "source_then_light"}

Resolved(phase, p, res) ==
    LET Of(prior) ==
            IF prior.kind \in {"instance", "model"}
            THEN [kind |-> prior.kind, path |-> prior.path, arg |-> prior.arg,
                  from |-> IF Lookup(prior.phase, res) = 0 THEN "raises"
                           ELSE res[Lookup(prior.phase, res)].outcome]
            ELSE [kind |-> prior.kind, path |-> prior.path, arg |-> prior.arg,
                  from |-> "-"]
        prior == phase.priors[p]
    IN  IF prior.kind = "shared"
        THEN IF prior.path \in DOMAIN phase.priors THEN Of(phase.priors[prior.path])
             ELSE Of(Default)
        ELSE Of(prior)

LensLight(phase) == {p \in DOMAIN phase.priors : p[1] = "lens" /\ p[2] \in {"bulge", "disk"}}

\* Two runs of phases 1 and 2 that differ at most in the result of phase 1
\* give phase 3 the same lens light priors.
Phase3LightIndependentOfPhase1 ==
    LET phase3 == pipeline.phases[3]
        Results(a, b) == <<[name |-> pipeline.phases[1].name, outcome |-> a],
                           [name |-> pipeline.phases[2].name, outcome |-> b]>>
    IN  \A a1 \in Outcomes, a2 \in Outcomes, b \in Outcomes :
            \A p \in LensLight(phase3) :
                Resolved(phase3, p, Results(a1, b)) = Resolved(phase3, p, Results(a2, b))

Phase3LensAndSourceFromPhase2 ==
    LET phase3 == pipeline.phases[3]
    IN  /\ phase3.name = "phase_3__lens_bulge_disk_sie__source_fixed"
        /\ Parameters(<<"lens", "mass">>, ProfileParams)
               \cup Parameters(<<"source", "light">>, ProfileParams)
               \cup (IF args.setup.no_shear THEN {}
                     ELSE Parameters(<<"lens", "shear">>, ShearParams))
               = {p \in DOMAIN phase3.priors : p[2] \in {"mass", "shear", "light"}}
        /\ \A p \in DOMAIN phase3.priors :
               p[2] \in {"mass", "shear", "light"} =>
                   phase3.priors[p] = [kind |-> "instance",
                                       phase |-> "phase_2__lens_sie__source_sersic",
                                       path |-> p, arg |-> <<>>]

\* C19 as stated: phase 3 of the parametric source pipeline takes nothing
\* for the lens light from phase 1: two runs that differ only in the result
\* of phase 1 give it the same bulge and disk priors, and these are default
\* priors; its lens mass, shear and source light are fixed to the best-fit
\* instance of phase 2.
C19_Phase3LightDefault ==
    (RunsParametricSource /\ pipeline.ok) =>
        /\ Phase3LightIndependentOfPhase1
        /\ \A p \in LensLight(pipeline.phases[3]) :
               Resolved(pipeline.phases[3], p, <<>>).kind = "default"
        /\ Phase3LensAndSourceFromPhase2

\* C19 amended: two runs that differ only in the result of phase 1 give
\* phase 3 the same bulge and disk priors, none read from phase 1: each
\* parameter of the bulge and of the disk (when the setup keeps the disk) has
\* its default prior, except that the bulge centre is bound to the disk centre
\* and that both centres are fixed to setup.source.lens_light_centre when it
\* is given; the lens mass, the shear (when the setup includes it) and the
\* source light are fixed to the best-fit instance of phase 2.
C19_Phase3LightNotFromPhase1 ==
    (RunsParametricSource /\ pipeline.ok) =>
        LET phase3 == pipeline.phases[3]
        IN  /\ Phase3LightIndependentOfPhase1
            /\ "phase_1__lens_bulge_disk" \notin Reads(phase3)
            /\ LensLight(phase3) =
                   Parameters(<<"lens", "bulge">>, ProfileParams)
                       \cup (IF args.setup.lens_light_bulge_only THEN {}
                             ELSE Parameters(<<"lens", "disk">>, ProfileParams))
            /\ \A p \in LensLight(phase3) :
                   phase3.priors[p] =
                       IF p[3] \in {"centre_0", "centre_1"} /\ args.setup.lens_light_centre
                       THEN [kind |-> "value", phase |-> "-", path |-> <<>>,
                             arg |-> <<"source.lens_light_centre">>]
                       ELSE IF p[3] \in {"centre_0", "centre_1"} /\ p[2] = "bulge"
                            THEN [kind |-> "shared", phase |-> "-",
                                  path |-> <<"lens", "disk", p[3]>>, arg |-> <<>>]
                            ELSE Default
            /\ Phase3LensAndSourceFromPhase2

C19_Witness ==
    /\ script = "parametric_source"
    /\ args.setup.lens_light_centre
    /\ ~args.setup.lens_light_bulge_only
    /\ running = {3}
    /\ Len(results) = 2
    /\ results[1].outcome # results[2].outcome
    /\ pipeline.phases[3].priors[<<"lens", "disk", "centre_0">>].kind = "value"
    /\ pipeline.phases[3].priors[<<"lens", "bulge", "rest">>] = Default

====
